---- MODULE Spec2Model ----
(***************************************************************************)
(* Pricing and order lifecycle of the phone-repair backend                 *)
(* (product/models.py, product/serializers.py, product/views.py).          *)
(*                                                                         *)
(* Money.  A DecimalField(decimal_places=2) amount is an integer number of *)
(* cents.  Percentages are whole percents (the requests and edits of the   *)
(* model carry no fractional percentage).  A Decimal computed in memory    *)
(* and not yet stored is an integer number of hundredths of a cent: price  *)
(* * percentage / 100 is exact there.  Storing such a value in a           *)
(* DecimalField quantizes it to cents.  The price preview multiplies an    *)
(* unrounded price by a second percentage: its figures are integer numbers *)
(* of 1/10000 cent.                                                        *)
(***************************************************************************)
EXTENDS Integers, Sequences, FiniteSets, TLC

(* ------------------------------ bounds -------------------------------- *)

\* requests that change persisted state in one behaviour
MaxSteps == 3
\* orders created in one behaviour, one request at a time
MaxOrders == 1
\* cents enumerated exhaustively for the price function's inputs
MaxCents == 3

(* ----------------------------- constants ------------------------------ *)

\* a NULL column (confirmed_at, warranty_expires_at), an absent request field
None == -1

\* in-memory units (hundredths of a cent) in one cent
Scale == 100

PART_TYPE_CHOICES == {"original", "duplicate"}

STATUS_CHOICES ==
    {"pending", "confirmed", "in_progress", "completed", "cancelled", "refunded"}

PAYMENT_STATUS_CHOICES == {"pending", "paid", "failed", "refunded"}

Max(a, b) == IF a >= b THEN a ELSE b

RECURSIVE SumOver(_, _)
\* Python's sum(f(x) for x in seq), f given as the sequence of its values
SumOver(s, i) == IF i > Len(s) THEN 0 ELSE s[i] + SumOver(s, i + 1)

Sum(s) == SumOver(s, 1)

(* ------------------------------- money -------------------------------- *)

\* a stored amount (cents) as the Decimal read back from the column
Micro(cents) == cents * Scale

\* the Decimal written to a DecimalField(decimal_places=2): quantized to
\* cents, ties to even (decimal's default context, which the ORM uses)
Quantize(x) ==
    LET q == x \div Scale
        r == x % Scale
    IN  IF r * 2 > Scale \/ (r * 2 = Scale /\ q % 2 = 1) THEN q + 1 ELSE q

(* --------------------------- RepairPrice ------------------------------ *)

\* a final price without the floor at zero
final_price_unfloored(rp) ==
    LET price == Micro(rp.base_price)
        p1 == IF rp.discount_percentage > 0
              THEN price - rp.base_price * rp.discount_percentage
              ELSE price
    IN  p1 - Micro(rp.discount_amount)

\* a final price that adds the fixed discount instead of taking it off
final_price_surcharge(rp) ==
    LET price == Micro(rp.base_price)
        p1 == IF rp.discount_percentage > 0
              THEN price - rp.base_price * rp.discount_percentage
              ELSE price
        p2 == p1 + Micro(rp.discount_amount)
    IN  Max(p2, 0)

\* RepairPrice.final_price: the price after both discounts, in hundredths of a cent
final_price(rp) ==
    LET price == Micro(rp.base_price)
        p1 == IF rp.discount_percentage > 0
              THEN price - rp.base_price * rp.discount_percentage
              ELSE price
        p2 == p1 - Micro(rp.discount_amount)
    IN  Max(p2, 0)

\* RepairPrice.total_discount, in hundredths of a cent
total_discount(rp) == Micro(rp.base_price) - final_price(rp)

(* ------------------------- the state ---------------------------------- *)

VARIABLES
    phone_models,      \* PhoneModel rows: id -> [is_active]
    repair_prices,     \* RepairPrice rows: pk -> row
    website_discount,  \* the WebsiteDiscount row
    orders,            \* committed Order rows with their OrderItems: id -> row
    next_id,           \* the Order primary-key sequence
    steps,             \* state-changing requests served so far
    last,              \* the latest request and its response
    txs,               \* create requests in flight, one per connection
    calc               \* the latest evaluation, quote or listing and its inputs

vars ==
    <<phone_models, repair_prices, website_discount, orders, next_id, steps,
      last, txs, calc>>

(* ----------------------- requests and inputs -------------------------- *)

PhoneModelIds == {1}

\* entries of a request's items list (OrderItemCreateSerializer): the
\* original and the duplicate part for problem 1
Original == [problem_id |-> 1, part_type |-> "original"]

Duplicate == [problem_id |-> 1, part_type |-> "duplicate"]

\* the items lists of a request: empty, one selection, two different
\* selections, the same selection twice
ItemLists ==
    {<<>>, <<Original>>, <<Duplicate>>, <<Original, Duplicate>>,
     <<Duplicate, Duplicate>>}

\* the site discount a request carries: none, or 50% and 1.00
Overrides ==
    {[website_discount_percentage |-> None, website_discount_amount |-> None],
     [website_discount_percentage |-> 50, website_discount_amount |-> 100]}

\* the body of a createOrder or calculate_price request
Requests ==
    {[phone_model_id |-> pm, items |-> items,
      website_discount_percentage |-> o.website_discount_percentage,
      website_discount_amount |-> o.website_discount_amount] :
        pm \in PhoneModelIds, items \in ItemLists, o \in Overrides}

\* the days the clock can show when confirm reads it
Days == {1, 2}

\* the numbers generate_order_number draws from, when orders are created
\* one request at a time
OrderNumbers == 1..MaxOrders

(* ----------------------------- catalog -------------------------------- *)

\* the active RepairPrice rows of (phone_model, problem, part_type):
\* RepairPrice.objects.get(..., is_active=True) returns the one row there is
\* (unique_together) or raises DoesNotExist
ActiveRepairPrices(pm, sel) ==
    {k \in DOMAIN repair_prices :
        /\ repair_prices[k].phone_model = pm
        /\ repair_prices[k].problem = sel.problem_id
        /\ repair_prices[k].part_type = sel.part_type
        /\ repair_prices[k].is_active}

RepairPriceOf(pm, sel) ==
    repair_prices[CHOOSE k \in ActiveRepairPrices(pm, sel) : TRUE]

\* PhoneModel.objects.get(id=..., is_active=True) finds a row
PhoneModelActive(pm) == pm \in DOMAIN phone_models /\ phone_models[pm].is_active

(* -------------------- OrderCreateSerializer --------------------------- *)

\* OrderCreateSerializer.validate_items
validate_items(value) == IF Len(value) = 0 THEN "items_required" ELSE "ok"

RECURSIVE validate_repair_prices(_, _, _)
\* the loop of OrderCreateSerializer.validate over the items, from item i:
\* the first item that has no active RepairPrice, or whose RepairPrice is not
\* in stock, ends it
validate_repair_prices(pm, items, i) ==
    IF i > Len(items) THEN "ok"
    ELSE IF ActiveRepairPrices(pm, items[i]) = {} THEN "invalid_option"
    ELSE IF ~RepairPriceOf(pm, items[i]).in_stock THEN "out_of_stock"
    ELSE validate_repair_prices(pm, items, i + 1)

\* OrderCreateSerializer.validate
validate(data) ==
    IF ~PhoneModelActive(data.phone_model_id) THEN "invalid_phone_model"
    ELSE validate_repair_prices(data.phone_model_id, data.items, 1)

\* serializer.is_valid: the field validators first, then validate
is_valid(data) ==
    IF validate_items(data.items) # "ok" THEN validate_items(data.items)
    ELSE validate(data)

\* validated_data: a DecimalField(default=Decimal('0.00')) absent from the
\* request is filled with its default
validated_percentage(data) ==
    IF data.website_discount_percentage = None THEN 0
    ELSE data.website_discount_percentage

validated_amount(data) ==
    IF data.website_discount_amount = None THEN 0
    ELSE data.website_discount_amount

(* ------------------------- Order, OrderItem --------------------------- *)

\* OrderItem.item_discount, in cents (both columns are stored amounts)
item_discount(item) == item.base_price - item.final_price

\* Order.calculate_totals: the three values it assigns, as the Decimals held
\* in memory (hundredths of a cent), from the order's stored line items
calculate_totals(order) ==
    LET items == order.order_items
        subtotal == Sum([i \in DOMAIN items |-> items[i].base_price])
        discount == Sum([i \in DOMAIN items |-> item_discount(items[i])])
        price_after_items == subtotal - discount
        pct_discount ==
            IF order.website_discount_percentage > 0
            THEN price_after_items * order.website_discount_percentage
            ELSE 0
        website_discount_total ==
            pct_discount + Micro(order.website_discount_amount)
    IN  [subtotal |-> Micro(subtotal),
         item_discount |-> Micro(discount),
         total_amount |->
            Max(Micro(price_after_items) - website_discount_total, 0)]

\* order.save() after calculate_totals: the values are written to their
\* DecimalField columns
save_totals(order) ==
    LET t == calculate_totals(order)
    IN  [order EXCEPT !.subtotal = Quantize(t.subtotal),
                      !.item_discount = Quantize(t.item_discount),
                      !.total_amount = Quantize(t.total_amount)]

\* OrderItem.objects.create in OrderViewSet.create: the line item stored for
\* a RepairPrice
new_order_item(rp, part_type) ==
    [problem |-> rp.problem,
     part_type |-> part_type,
     base_price |-> rp.base_price,
     discount_percentage |-> rp.discount_percentage,
     discount_amount |-> rp.discount_amount,
     final_price |-> Quantize(final_price(rp)),
     warranty_days |-> rp.warranty_days,
     warranty_expires_at |-> None]

\* Order.objects.create in OrderViewSet.create: the row first inserted
new_order(data, number) ==
    [order_number |-> number,
     phone_model |-> data.phone_model_id,
     subtotal |-> 0,
     item_discount |-> 0,
     website_discount_percentage |-> validated_percentage(data),
     website_discount_amount |-> validated_amount(data),
     total_amount |-> 0,
     status |-> "pending",
     payment_status |-> "pending",
     confirmed_at |-> None,
     completed_at |-> None,
     order_items |-> <<>>]

\* an order created with one line item per distinct selection of the request
created_order_distinct(data, number) ==
    LET first == new_order(data, number)
        distinct[i \in 0..Len(data.items)] ==
            IF i = 0 THEN <<>>
            ELSE IF \E j \in 1..(i - 1) : data.items[j] = data.items[i]
                 THEN distinct[i - 1]
                 ELSE Append(distinct[i - 1], data.items[i])
        sels == distinct[Len(data.items)]
        items == [i \in DOMAIN sels |->
                    new_order_item(
                        RepairPriceOf(data.phone_model_id, sels[i]),
                        sels[i].part_type)]
    IN  save_totals([first EXCEPT !.order_items = items])

\* the order OrderViewSet.create commits for a valid request when nothing
\* else runs meanwhile: the row, one line item per selection, the totals
created_order(data, number) ==
    LET first == new_order(data, number)
        items == [i \in DOMAIN data.items |->
                    new_order_item(
                        RepairPriceOf(data.phone_model_id, data.items[i]),
                        data.items[i].part_type)]
    IN  save_totals([first EXCEPT !.order_items = items])

\* what Order.generate_order_number can return: a number of the pool that
\* no committed order has
generate_order_number(pool) ==
    {n \in pool : \A i \in DOMAIN orders : orders[i].order_number # n}

(* --------------------------- initial state ---------------------------- *)

RepairPriceRow(pm, problem, part, base, pct, amt, stock, days) ==
    [phone_model |-> pm, problem |-> problem, part_type |-> part,
     base_price |-> base, discount_percentage |-> pct,
     discount_amount |-> amt, in_stock |-> stock, warranty_days |-> days,
     is_active |-> TRUE]

\* a catalog: the original part at 100.00 less 10% less 5.00, the duplicate
\* part at 0.99 less 10%
InitialRepairPrices ==
    <<RepairPriceRow(1, 1, "original", 10000, 10, 500, TRUE, 90),
      RepairPriceRow(1, 1, "duplicate", 99, 10, 0, TRUE, 30)>>

Connections == {1, 2}

\* no request
NoRequest ==
    [phone_model_id |-> None, items |-> <<>>,
     website_discount_percentage |-> None, website_discount_amount |-> None]

\* a connection that serves no create request
IdleTx ==
    [pc |-> "idle", data |-> NoRequest, number |-> None, oid |-> None,
     order |-> new_order(NoRequest, None), written |-> FALSE]

NoCalc ==
    [base_price |-> 0, discount_percentage |-> 0, discount_amount |-> 0,
     final_price |-> None, total_discount |-> None]

\* the response of a request: the operation, the HTTP status, the error it
\* names and the order it is about
Response(op, code, error, oid) ==
    [op |-> op, code |-> code, error |-> error, oid |-> oid]

Init ==
    /\ phone_models = [m \in PhoneModelIds |-> [is_active |-> (m = 1)]]
    /\ repair_prices = InitialRepairPrices
    /\ website_discount = [is_active |-> TRUE, percentage |-> 5, amount |-> 0]
    /\ orders = <<>>
    /\ next_id = 1
    /\ steps = 0
    /\ last = Response("none", 0, "", None)
    /\ txs = [c \in Connections |-> IdleTx]
    /\ calc = NoCalc

(* ------------------------- OrderViewSet ------------------------------- *)

\* OrderViewSet.create served alone: validation, the order row, its line
\* items, the totals, the commit
create(data) ==
    /\ \/ /\ is_valid(data) # "ok"
          /\ last' = Response("create", 400, is_valid(data), None)
          /\ UNCHANGED <<orders, next_id, steps>>
       \/ /\ is_valid(data) = "ok"
          /\ next_id <= MaxOrders
          /\ \E number \in generate_order_number(OrderNumbers) :
                orders' = orders @@ (next_id :> created_order(data, number))
          /\ next_id' = next_id + 1
          /\ steps < MaxSteps
          /\ steps' = steps + 1
          /\ last' = Response("create", 201, "", next_id)
    /\ UNCHANGED <<phone_models, repair_prices, website_discount, txs, calc>>

\* a confirm test that refuses only the statuses cancel refuses
can_confirm_open(order) ==
    order.status \notin {"completed", "cancelled", "refunded"}

\* a confirm test that refuses only an order already confirmed
can_confirm_unconfirmed(order) == order.status # "confirmed"

\* the test of OrderViewSet.confirm
can_confirm(order) == order.status = "pending"

\* OrderItem.set_warranty_expiry for a line item of `order`
set_warranty_expiry(item, order) ==
    IF order.confirmed_at # None
    THEN [item EXCEPT !.warranty_expires_at =
                            order.confirmed_at + item.warranty_days]
    ELSE item

\* a confirm whose line items still see the order as it was read
confirmed_order_stale(order, now) ==
    LET o == [order EXCEPT !.status = "confirmed", !.confirmed_at = now]
    IN  [o EXCEPT !.order_items =
            [i \in DOMAIN o.order_items |->
                set_warranty_expiry(o.order_items[i], order)]]

\* a confirm that also recalculates and stores the totals
confirmed_order_recalculated(order, now) ==
    LET o == [order EXCEPT !.status = "confirmed", !.confirmed_at = now]
    IN  save_totals([o EXCEPT !.order_items =
            [i \in DOMAIN o.order_items |->
                set_warranty_expiry(o.order_items[i], o)]])

\* what OrderViewSet.confirm stores for a pending order at time `now`
confirmed_order(order, now) ==
    LET o == [order EXCEPT !.status = "confirmed", !.confirmed_at = now]
    IN  [o EXCEPT !.order_items =
            [i \in DOMAIN o.order_items |->
                set_warranty_expiry(o.order_items[i], o)]]

\* OrderViewSet.confirm
confirm(id, now) ==
    /\ id \in DOMAIN orders
    /\ \/ /\ ~can_confirm(orders[id])
          /\ last' = Response("confirm", 400, "only_pending", id)
          /\ UNCHANGED <<orders, steps>>
       \/ /\ can_confirm(orders[id])
          /\ orders' = [orders EXCEPT ![id] = confirmed_order(@, now)]
          /\ steps < MaxSteps
          /\ steps' = steps + 1
          /\ last' = Response("confirm", 200, "", id)
    /\ UNCHANGED <<phone_models, repair_prices, website_discount, next_id,
                   txs, calc>>

\* the test of OrderViewSet.cancel
can_cancel(order) == order.status \notin {"completed", "cancelled", "refunded"}

\* a cancel that also reverses the payment
cancelled_order_refunded(order) ==
    [order EXCEPT !.status = "cancelled", !.payment_status = "refunded"]

\* what OrderViewSet.cancel stores
cancelled_order(order) == [order EXCEPT !.status = "cancelled"]

\* OrderViewSet.cancel
cancel(id) ==
    /\ id \in DOMAIN orders
    /\ \/ /\ ~can_cancel(orders[id])
          /\ last' = Response("cancel", 400, "cannot_cancel", id)
          /\ UNCHANGED <<orders, steps>>
       \/ /\ can_cancel(orders[id])
          /\ orders' = [orders EXCEPT ![id] = cancelled_order(@)]
          /\ steps < MaxSteps
          /\ steps' = steps + 1
          /\ last' = Response("cancel", 200, "", id)
    /\ UNCHANGED <<phone_models, repair_prices, website_discount, next_id,
                   txs, calc>>

\* the fields of OrderSerializer that are not read-only and that the model
\* follows, with the values a request may give them
WritableFields ==
    {"status", "payment_status", "website_discount_percentage",
     "website_discount_amount"}

FieldValues(field) ==
    CASE field = "status" -> STATUS_CHOICES
      [] field = "payment_status" -> PAYMENT_STATUS_CHOICES
      [] field = "website_discount_percentage" -> {0, 50}
      [] field = "website_discount_amount" -> {0, 100}

\* an update that also recalculates and stores the totals
updated_order_recalculated(order, field, value) ==
    save_totals(
        CASE field = "status" -> [order EXCEPT !.status = value]
          [] field = "payment_status" -> [order EXCEPT !.payment_status = value]
          [] field = "website_discount_percentage" ->
                [order EXCEPT !.website_discount_percentage = value]
          [] field = "website_discount_amount" ->
                [order EXCEPT !.website_discount_amount = value])

\* what a PATCH of one field through OrderSerializer stores
updated_order(order, field, value) ==
    CASE field = "status" -> [order EXCEPT !.status = value]
      [] field = "payment_status" -> [order EXCEPT !.payment_status = value]
      [] field = "website_discount_percentage" ->
            [order EXCEPT !.website_discount_percentage = value]
      [] field = "website_discount_amount" ->
            [order EXCEPT !.website_discount_amount = value]

\* OrderViewSet.partial_update (ModelViewSet), through OrderSerializer
partial_update(id, field, value) ==
    /\ id \in DOMAIN orders
    /\ steps < MaxSteps
    /\ orders' = [orders EXCEPT ![id] = updated_order(@, field, value)]
    /\ orders' # orders
    /\ steps' = steps + 1
    /\ last' = Response("update", 200, "", id)
    /\ UNCHANGED <<phone_models, repair_prices, website_discount, next_id,
                   txs, calc>>

\* the bodies of a PUT: a value for each of the writable fields
UpdateBodies ==
    [status : STATUS_CHOICES, payment_status : PAYMENT_STATUS_CHOICES,
     website_discount_percentage : FieldValues("website_discount_percentage"),
     website_discount_amount : FieldValues("website_discount_amount")]

\* OrderViewSet.update (ModelViewSet), through OrderSerializer: every
\* writable field is set from the body, the read-only ones are ignored
update(id, body) ==
    /\ id \in DOMAIN orders
    /\ steps < MaxSteps
    /\ orders' = [orders EXCEPT ![id] =
            updated_order(
                updated_order(
                    updated_order(
                        updated_order(@, "status", body.status),
                        "payment_status", body.payment_status),
                    "website_discount_percentage",
                    body.website_discount_percentage),
                "website_discount_amount", body.website_discount_amount)]
    /\ orders' # orders
    /\ steps' = steps + 1
    /\ last' = Response("update", 200, "", id)
    /\ UNCHANGED <<phone_models, repair_prices, website_discount, next_id,
                   txs, calc>>

(* --------------------- catalog maintenance ---------------------------- *)

RepairPriceFields ==
    {"base_price", "discount_percentage", "discount_amount", "warranty_days",
     "in_stock", "is_active"}

RepairPriceValues(field) ==
    CASE field = "base_price" -> {99, 10000}
      [] field = "discount_percentage" -> {0, 10}
      [] field = "discount_amount" -> {0, 500}
      [] field = "warranty_days" -> {0, 90}
      [] field = "in_stock" -> BOOLEAN
      [] field = "is_active" -> BOOLEAN

edited_repair_price(rp, field, value) ==
    CASE field = "base_price" -> [rp EXCEPT !.base_price = value]
      [] field = "discount_percentage" ->
            [rp EXCEPT !.discount_percentage = value]
      [] field = "discount_amount" -> [rp EXCEPT !.discount_amount = value]
      [] field = "warranty_days" -> [rp EXCEPT !.warranty_days = value]
      [] field = "in_stock" -> [rp EXCEPT !.in_stock = value]
      [] field = "is_active" -> [rp EXCEPT !.is_active = value]

\* a catalog maintainer changes one field of a RepairPrice
edit_repair_price(k, field, value) ==
    /\ k \in DOMAIN repair_prices
    /\ steps < MaxSteps
    /\ repair_prices' =
            [repair_prices EXCEPT ![k] = edited_repair_price(@, field, value)]
    /\ repair_prices' # repair_prices
    /\ steps' = steps + 1
    /\ last' = Response("edit_repair_price", 200, "", None)
    /\ UNCHANGED <<phone_models, website_discount, orders, next_id, txs, calc>>

WebsiteDiscountFields == {"is_active", "percentage", "amount"}

WebsiteDiscountValues(field) ==
    CASE field = "is_active" -> BOOLEAN
      [] field = "percentage" -> {0, 5}
      [] field = "amount" -> {0, 100}

edited_website_discount(wd, field, value) ==
    CASE field = "is_active" -> [wd EXCEPT !.is_active = value]
      [] field = "percentage" -> [wd EXCEPT !.percentage = value]
      [] field = "amount" -> [wd EXCEPT !.amount = value]

\* a maintainer changes one field of the WebsiteDiscount row
edit_website_discount(field, value) ==
    /\ steps < MaxSteps
    /\ website_discount' = edited_website_discount(website_discount, field, value)
    /\ website_discount' # website_discount
    /\ steps' = steps + 1
    /\ last' = Response("edit_website_discount", 200, "", None)
    /\ UNCHANGED <<phone_models, repair_prices, orders, next_id, txs, calc>>

\* a maintainer activates or deactivates a PhoneModel
edit_phone_model(pm, active) ==
    /\ pm \in DOMAIN phone_models
    /\ steps < MaxSteps
    /\ phone_models[pm].is_active # active
    /\ phone_models' = [phone_models EXCEPT ![pm].is_active = active]
    /\ steps' = steps + 1
    /\ last' = Response("edit_phone_model", 200, "", None)
    /\ UNCHANGED <<repair_prices, website_discount, orders, next_id, txs, calc>>

(* ------------------ RepairPriceViewSet.calculate_price ---------------- *)

\* WebsiteDiscount.objects.filter(is_active=True).first(), or zero
active_discount_percentage ==
    IF website_discount.is_active THEN website_discount.percentage ELSE 0

active_discount_amount ==
    IF website_discount.is_active THEN website_discount.amount ELSE 0

RECURSIVE price_items(_, _, _)
\* the loop of calculate_price over the items, from item i: "ok", or the
\* error of the first item with no active RepairPrice
price_items(pm, items, i) ==
    IF i > Len(items) THEN "ok"
    ELSE IF ActiveRepairPrices(pm, items[i]) = {} THEN "invalid_option"
    ELSE price_items(pm, items, i + 1)

\* the error calculate_price answers with, or "ok"
calculate_price_error(data) ==
    IF Len(data.items) = 0 THEN "items_required"
    ELSE IF ~PhoneModelActive(data.phone_model_id) THEN "invalid_phone_model"
    ELSE price_items(data.phone_model_id, data.items, 1)

\* a figure in in-memory units as a figure of the preview (1/10000 cent)
Fine(x) == x * Scale

\* the figures of a successful calculate_price response, in 1/10000 cent
\* (the percentage in percents)
calculate_price_body(data) ==
    LET pm == data.phone_model_id
        rps == [i \in DOMAIN data.items |-> RepairPriceOf(pm, data.items[i])]
        subtotal == Sum([i \in DOMAIN rps |-> Micro(rps[i].base_price)])
        discount ==
            Sum([i \in DOMAIN rps |->
                    Micro(rps[i].base_price) - final_price(rps[i])])
        price_after_items == subtotal - discount
        website_discount_total ==
            price_after_items * active_discount_percentage
                + Fine(Micro(active_discount_amount))
    IN  [subtotal |-> Fine(subtotal),
         item_discount |-> Fine(discount),
         website_discount_percentage |-> active_discount_percentage,
         website_discount_amount |-> Fine(Micro(active_discount_amount)),
         total_amount |->
            Max(Fine(price_after_items) - website_discount_total, 0)]

\* RepairPriceViewSet.calculate_price: reads only
calculate_price(data) ==
    /\ last' =
        IF calculate_price_error(data) = "ok"
        THEN Response("calculate_price", 200, "", None)
        ELSE Response("calculate_price", 400, calculate_price_error(data), None)
    /\ UNCHANGED <<phone_models, repair_prices, website_discount, orders,
                   next_id, steps, txs, calc>>

(* --------------------------- specifications -------------------------- *)

\* orders created, confirmed, cancelled and updated one request at a time,
\* while the catalog is maintained
Next ==
    \/ \E data \in Requests : create(data)
    \/ \E id \in 1..MaxOrders, now \in Days : confirm(id, now)
    \/ \E id \in 1..MaxOrders : cancel(id)
    \/ \E id \in 1..MaxOrders, field \in WritableFields :
            \E value \in FieldValues(field) : partial_update(id, field, value)
    \/ \E k \in DOMAIN repair_prices, field \in RepairPriceFields :
            \E value \in RepairPriceValues(field) :
                edit_repair_price(k, field, value)
    \/ \E field \in WebsiteDiscountFields :
            \E value \in WebsiteDiscountValues(field) :
                edit_website_discount(field, value)
    \/ \E pm \in PhoneModelIds, active \in BOOLEAN : edit_phone_model(pm, active)

Spec == Init /\ [][Next]_vars

\* price previews while the catalog is maintained
NextPreview ==
    \/ \E data \in Requests : calculate_price(data)
    \/ \E k \in DOMAIN repair_prices, field \in RepairPriceFields :
            \E value \in RepairPriceValues(field) :
                edit_repair_price(k, field, value)
    \/ \E field \in WebsiteDiscountFields :
            \E value \in WebsiteDiscountValues(field) :
                edit_website_discount(field, value)
    \/ \E pm \in PhoneModelIds, active \in BOOLEAN : edit_phone_model(pm, active)

SpecPreview == Init /\ [][NextPreview]_vars

(* ------------- RepairPrice.final_price as a pure function ------------- *)

\* base prices: every small amount, and those of the documented examples
Prices == (0..MaxCents) \cup {2000, 10000}

\* discount percentages of the validated range 0..100
Percentages == {0, 1, 10, 50, 100}

\* fixed discounts: every small amount, and those of the examples
Amounts == (0..MaxCents) \cup {500, 5000}

\* a RepairPrice of any base price and discounts, its properties not yet read
InitPrice ==
    /\ phone_models = [m \in PhoneModelIds |-> [is_active |-> (m = 1)]]
    /\ repair_prices = InitialRepairPrices
    /\ website_discount = [is_active |-> TRUE, percentage |-> 5, amount |-> 0]
    /\ orders = <<>>
    /\ next_id = 1
    /\ steps = 0
    /\ last = Response("none", 0, "", None)
    /\ txs = [c \in Connections |-> IdleTx]
    /\ calc \in {[base_price |-> b, discount_percentage |-> p,
                  discount_amount |-> a, final_price |-> None,
                  total_discount |-> None] :
                    b \in Prices, p \in Percentages, a \in Amounts}

\* reading the final_price and total_discount properties of the RepairPrice
read_prices ==
    /\ calc.final_price = None
    /\ calc' = [calc EXCEPT !.final_price = final_price(calc),
                            !.total_discount = total_discount(calc)]
    /\ UNCHANGED <<phone_models, repair_prices, website_discount, orders,
                   next_id, steps, last, txs>>

NextPrice == read_prices

SpecPrice == InitPrice /\ [][NextPrice]_vars

(* -------------- OrderViewSet.create, statement by statement ----------- *)

\* the order numbers concurrent requests draw from
ConcNumbers == 1..(MaxOrders + 1)

\* the rows of a request that wrote outside a transaction: what it had
\* written stays
persisted_without_atomic(tx) ==
    IF tx.written THEN (tx.oid :> tx.order) ELSE <<>>

\* what remains in the database of the rows a create request wrote when an
\* exception leaves the view
persisted_on_abort(tx) == <<>>

\* serializer.is_valid(raise_exception=True): a rejected request ends here
create_validate(c, data) ==
    /\ txs[c].pc = "idle"
    /\ \/ /\ is_valid(data) # "ok"
          /\ last' = Response("create", 400, is_valid(data), None)
          /\ UNCHANGED <<txs, steps>>
       \/ /\ is_valid(data) = "ok"
          /\ steps < MaxSteps
          /\ steps' = steps + 1
          /\ txs' = [txs EXCEPT ![c] = [IdleTx EXCEPT !.pc = "number",
                                                      !.data = data]]
          /\ UNCHANGED last
    /\ UNCHANGED <<phone_models, repair_prices, website_discount, orders,
                   next_id, calc>>

\* Order.save: generate_order_number returns a number no committed order has
create_number(c) ==
    /\ txs[c].pc = "number"
    /\ \E number \in generate_order_number(ConcNumbers) :
            txs' = [txs EXCEPT ![c].number = number, ![c].pc = "insert"]
    /\ UNCHANGED <<phone_models, repair_prices, website_discount, orders,
                   next_id, steps, last, calc>>

\* the insert of Order.objects.create under the unique order_number: it
\* waits for a transaction that holds the same number uncommitted, and
\* raises IntegrityError when a committed order has the number
create_insert(c) ==
    /\ txs[c].pc = "insert"
    /\ \A d \in Connections \ {c} :
            ~(txs[d].written /\ txs[d].number = txs[c].number)
    /\ \/ /\ \E id \in DOMAIN orders :
                orders[id].order_number = txs[c].number
          /\ orders' = orders @@ persisted_on_abort(txs[c])
          /\ txs' = [txs EXCEPT ![c] = IdleTx]
          /\ last' = Response("create", 500, "IntegrityError", None)
          /\ UNCHANGED next_id
       \/ /\ \A id \in DOMAIN orders :
                orders[id].order_number # txs[c].number
          /\ txs' = [txs EXCEPT
                        ![c].order = new_order(txs[c].data, txs[c].number),
                        ![c].oid = next_id,
                        ![c].written = TRUE,
                        ![c].pc = "items"]
          /\ next_id' = next_id + 1
          /\ UNCHANGED <<orders, last>>
    /\ UNCHANGED <<phone_models, repair_prices, website_discount, steps, calc>>

\* one round of the loop over data['items']: the RepairPrice is read again
\* and the line item inserted; DoesNotExist leaves the view
create_item(c) ==
    LET tx == txs[c]
        i == Len(tx.order.order_items) + 1
        pm == tx.data.phone_model_id
    IN  /\ tx.pc = "items"
        /\ i <= Len(tx.data.items)
        /\ \/ /\ ActiveRepairPrices(pm, tx.data.items[i]) = {}
              /\ orders' = orders @@ persisted_on_abort(tx)
              /\ txs' = [txs EXCEPT ![c] = IdleTx]
              /\ last' = Response("create", 500, "DoesNotExist", None)
           \/ /\ ActiveRepairPrices(pm, tx.data.items[i]) # {}
              /\ txs' = [txs EXCEPT ![c].order.order_items =
                            Append(@, new_order_item(
                                RepairPriceOf(pm, tx.data.items[i]),
                                tx.data.items[i].part_type))]
              /\ UNCHANGED <<orders, last>>
        /\ UNCHANGED <<phone_models, repair_prices, website_discount,
                       next_id, steps, calc>>

\* calculate_totals, order.save and the commit that ends the atomic block
create_commit(c) ==
    LET tx == txs[c]
    IN  /\ tx.pc = "items"
        /\ Len(tx.order.order_items) = Len(tx.data.items)
        /\ orders' = orders @@ (tx.oid :> save_totals(tx.order))
        /\ txs' = [txs EXCEPT ![c] = IdleTx]
        /\ last' = Response("create", 201, "", tx.oid)
        /\ UNCHANGED <<phone_models, repair_prices, website_discount,
                       next_id, steps, calc>>

\* the catalog fields whose change a running create request can meet
AvailabilityFields == {"is_active", "in_stock"}

\* the requests made concurrently: no items, one item, two items, each with
\* no site discount of its own
ConcRequests ==
    {r \in Requests :
        /\ r.items \in {<<>>, <<Original>>, <<Original, Duplicate>>}
        /\ r.website_discount_percentage = None}

\* create requests on several connections, and the catalog edited meanwhile
NextConc ==
    \/ \E c \in Connections, data \in ConcRequests : create_validate(c, data)
    \/ \E c \in Connections : create_number(c)
    \/ \E c \in Connections : create_insert(c)
    \/ \E c \in Connections : create_item(c)
    \/ \E c \in Connections : create_commit(c)
    \/ \E k \in DOMAIN repair_prices, field \in AvailabilityFields,
          value \in BOOLEAN : edit_repair_price(k, field, value)
    \/ \E pm \in PhoneModelIds, active \in BOOLEAN :
            edit_phone_model(pm, active)

SpecConc == Init /\ [][NextConc]_vars

(* ------------------------- discounts raised --------------------------- *)

\* site-wide fixed discounts of the WebsiteDiscount row
SiteAmounts == {0, 100, 5000}

\* a catalog whose first RepairPrice has any base price and discounts, and
\* an active WebsiteDiscount of any percentage and amount, one edit away
\* from the end of the behaviour
InitMono ==
    /\ phone_models = [m \in PhoneModelIds |-> [is_active |-> (m = 1)]]
    /\ \E b \in Prices, p \in Percentages, a \in Amounts :
            repair_prices =
                <<RepairPriceRow(1, 1, "original", b, p, a, TRUE, 90),
                  RepairPriceRow(1, 1, "duplicate", 99, 10, 0, TRUE, 30)>>
    /\ \E p \in Percentages, a \in SiteAmounts :
            website_discount =
                [is_active |-> TRUE, percentage |-> p, amount |-> a]
    /\ orders = <<>>
    /\ next_id = 1
    /\ steps = MaxSteps - 1
    /\ last = Response("none", 0, "", None)
    /\ txs = [c \in Connections |-> IdleTx]
    /\ calc = NoCalc

\* the figures a client is given, once, for a request: the total of the price
\* preview, the total of the order createOrder computes, and the total
\* calculate_totals gives that order under the active site discount; kept
\* with the catalog and the WebsiteDiscount they were computed from
price_request(data) ==
    /\ calc = NoCalc
    /\ calculate_price_error(data) = "ok"
    /\ is_valid(data) = "ok"
    /\ calc' =
        [data |-> data,
         repair_prices |-> repair_prices,
         website_discount |-> website_discount,
         preview_total |-> calculate_price_body(data).total_amount,
         order_total |-> created_order(data, 1).total_amount,
         site_total |->
            save_totals([created_order(data, 1) EXCEPT
                !.website_discount_percentage = website_discount.percentage,
                !.website_discount_amount = website_discount.amount
            ]).total_amount]
    /\ UNCHANGED <<phone_models, repair_prices, website_discount, orders,
                   next_id, steps, last, txs>>

\* prices asked for, and a discount of the catalog edited once to any value
\* of its range
NextMono ==
    \/ \E data \in Requests : price_request(data)
    \/ \E p \in Percentages : edit_repair_price(1, "discount_percentage", p)
    \/ \E a \in Amounts : edit_repair_price(1, "discount_amount", a)
    \/ \E p \in Percentages : edit_website_discount("percentage", p)
    \/ \E a \in SiteAmounts : edit_website_discount("amount", a)

SpecMono == InitMono /\ [][NextMono]_vars

(* ------- OrderViewSet.confirm and cancel, statement by statement ------- *)

\* self.get_object() of a confirm or cancel request: the order row and its
\* prefetched line items as they are now
get_object(c, op, id) ==
    /\ txs[c] = IdleTx
    /\ id \in DOMAIN orders
    /\ steps < MaxSteps
    /\ steps' = steps + 1
    /\ txs' = [txs EXCEPT ![c] =
                [pc |-> op, oid |-> id, order |-> orders[id], saved |-> 0]]
    /\ UNCHANGED <<phone_models, repair_prices, website_discount, orders,
                   next_id, last, calc>>

\* order.save(): every column of the Order row is written from the order
\* held in memory; the OrderItem rows are not touched
saved_order(stored, order) ==
    [order EXCEPT !.order_items = stored.order_items]

\* item.save(): every column of the OrderItem row i is written from the line
\* item held in memory
saved_item(stored, order, i) ==
    [stored EXCEPT !.order_items[i] = order.order_items[i]]

\* confirm: the status test on the order read, then order.save()
confirm_save(c) ==
    LET tx == txs[c]
    IN  /\ tx.pc = "confirm"
        /\ \/ /\ ~can_confirm(tx.order)
              /\ last' = Response("confirm", 400, "only_pending", tx.oid)
              /\ txs' = [txs EXCEPT ![c] = IdleTx]
              /\ UNCHANGED orders
           \/ /\ can_confirm(tx.order)
              /\ \E now \in Days :
                    /\ txs' = [txs EXCEPT
                                ![c].order = confirmed_order(tx.order, now),
                                ![c].pc = "items"]
                    /\ orders' = [orders EXCEPT ![tx.oid] =
                            saved_order(@, confirmed_order(tx.order, now))]
              /\ UNCHANGED last
        /\ UNCHANGED <<phone_models, repair_prices, website_discount,
                       next_id, steps, calc>>

\* confirm: one round of the loop over the line items, item.save()
confirm_item(c) ==
    LET tx == txs[c]
    IN  /\ tx.pc = "items"
        /\ tx.saved < Len(tx.order.order_items)
        /\ orders' = [orders EXCEPT ![tx.oid] =
                        saved_item(@, tx.order, tx.saved + 1)]
        /\ txs' = [txs EXCEPT ![c].saved = tx.saved + 1]
        /\ UNCHANGED <<phone_models, repair_prices, website_discount,
                       next_id, steps, last, calc>>

\* confirm: item.save() raises, the exception leaves the view; what was
\* saved before stays, the view opens no transaction
confirm_fail(c) ==
    LET tx == txs[c]
    IN  /\ tx.pc = "items"
        /\ tx.saved < Len(tx.order.order_items)
        /\ last' = Response("confirm", 500, "DatabaseError", tx.oid)
        /\ txs' = [txs EXCEPT ![c] = IdleTx]
        /\ UNCHANGED <<phone_models, repair_prices, website_discount, orders,
                       next_id, steps, calc>>

\* confirm: the response after the loop
confirm_respond(c) ==
    LET tx == txs[c]
    IN  /\ tx.pc = "items"
        /\ tx.saved = Len(tx.order.order_items)
        /\ last' = Response("confirm", 200, "", tx.oid)
        /\ txs' = [txs EXCEPT ![c] = IdleTx]
        /\ UNCHANGED <<phone_models, repair_prices, website_discount, orders,
                       next_id, steps, calc>>

\* cancel: the status test on the order read, order.save(), the response
cancel_save(c) ==
    LET tx == txs[c]
    IN  /\ tx.pc = "cancel"
        /\ \/ /\ ~can_cancel(tx.order)
              /\ last' = Response("cancel", 400, "cannot_cancel", tx.oid)
              /\ UNCHANGED orders
           \/ /\ can_cancel(tx.order)
              /\ orders' = [orders EXCEPT ![tx.oid] =
                                saved_order(@, cancelled_order(tx.order))]
              /\ last' = Response("cancel", 200, "", tx.oid)
        /\ txs' = [txs EXCEPT ![c] = IdleTx]
        /\ UNCHANGED <<phone_models, repair_prices, website_discount,
                       next_id, steps, calc>>

\* orders created, then confirmed and cancelled by concurrent requests
NextLife ==
    \/ \E data \in ConcRequests : create(data)
    \/ \E c \in Connections, id \in DOMAIN orders :
            get_object(c, "confirm", id)
    \/ \E c \in Connections, id \in DOMAIN orders :
            get_object(c, "cancel", id)
    \/ \E c \in Connections : confirm_save(c)
    \/ \E c \in Connections : confirm_item(c)
    \/ \E c \in Connections : confirm_fail(c)
    \/ \E c \in Connections : confirm_respond(c)
    \/ \E c \in Connections : cancel_save(c)

SpecLife == Init /\ [][NextLife]_vars

(* ------------------ orders updated through the API ------------------- *)

\* orders created, confirmed and cancelled, and updated by PATCH and PUT
NextUpdate ==
    \/ \E data \in ConcRequests : create(data)
    \/ \E id \in 1..MaxOrders, now \in Days : confirm(id, now)
    \/ \E id \in 1..MaxOrders : cancel(id)
    \/ \E id \in 1..MaxOrders, field \in WritableFields :
            \E value \in FieldValues(field) : partial_update(id, field, value)
    \/ \E id \in 1..MaxOrders, body \in UpdateBodies : update(id, body)

SpecUpdate == Init /\ [][NextUpdate]_vars

(* ----------------------- RepairPriceViewSet.list ----------------------- *)

\* the phone models of the listed catalog: two of brand 1, one of brand 2
ListPhoneModels == {1, 2, 3}

ListBrand(pm) == IF pm = 3 THEN 2 ELSE 1

\* the query parameters of a listing: a phone model, a brand, both or none
Queries ==
    [phone_model : {None, 1, 2}, brand : {None}]
        \cup [phone_model : {None}, brand : {1, 2}]
        \cup {[phone_model |-> 3, brand |-> 1]}

\* the options of the listed catalog, for problems numbered in the order of
\* their names; (phone_model, problem, part_type) is unique
ListRepairPrices ==
    <<RepairPriceRow(1, 1, "original", 10000, 10, 500, TRUE, 90),
      RepairPriceRow(1, 1, "duplicate", 99, 10, 0, TRUE, 30),
      RepairPriceRow(1, 2, "original", 2000, 0, 0, TRUE, 90),
      RepairPriceRow(2, 1, "original", 10000, 0, 0, TRUE, 90),
      RepairPriceRow(2, 2, "duplicate", 99, 0, 0, FALSE, 30),
      RepairPriceRow(3, 1, "original", 2000, 50, 0, TRUE, 90)>>

\* get_queryset with the filter of list: the primary keys of the active
\* options of the phone model, else of the brand, else of the catalog
filtered(query) ==
    {k \in DOMAIN repair_prices :
        /\ repair_prices[k].is_active
        /\ IF query.phone_model # None
           THEN repair_prices[k].phone_model = query.phone_model
           ELSE IF query.brand # None
           THEN phone_models[repair_prices[k].phone_model].brand = query.brand
           ELSE TRUE}

\* "duplicate" sorts before "original"
part_type_rank(part) == IF part = "duplicate" THEN 0 ELSE 1

\* RepairPrice.Meta.ordering = ['phone_model', 'problem', 'part_type']: the
\* phone models latest created first (PhoneModel.Meta.ordering), then the
\* problems by name, then the part types; j is read strictly before k
before(j, k) ==
    LET a == repair_prices[j]
        b == repair_prices[k]
        ca == phone_models[a.phone_model].created_at
        cb == phone_models[b.phone_model].created_at
    IN  \/ ca > cb
        \/ ca = cb /\ a.problem < b.problem
        \/ /\ ca = cb
           /\ a.problem = b.problem
           /\ part_type_rank(a.part_type) < part_type_rank(b.part_type)

\* the sequences in which the database may return the rows S: every order
\* that agrees with the ordering; rows equal under it come in either order
RECURSIVE ordered(_)
ordered(S) ==
    IF S = {}
    THEN {<<>>}
    ELSE UNION {{<<k>> \o rest : rest \in ordered(S \ {k})} :
                    k \in {m \in S : \A j \in S : ~before(j, m)}}

\* the entry of problems_dict for a problem first met
new_group(problem) ==
    [problem_id |-> problem, original |-> None, duplicate |-> None]

\* a listing that puts a problem first met in front of the others
group_add_front(groups, k) ==
    LET rp == repair_prices[k]
    IN  IF \E g \in DOMAIN groups : groups[g].problem_id = rp.problem
        THEN [g \in DOMAIN groups |->
                IF groups[g].problem_id = rp.problem
                THEN [groups[g] EXCEPT ![rp.part_type] = k]
                ELSE groups[g]]
        ELSE <<[new_group(rp.problem) EXCEPT ![rp.part_type] = k]>> \o groups

\* one round of the loop of list: the problem gets an entry at the end of
\* problems_dict when it has none, and the option, given by its id, is put
\* under its part type
group_add(groups, k) ==
    LET rp == repair_prices[k]
    IN  IF \E g \in DOMAIN groups : groups[g].problem_id = rp.problem
        THEN [g \in DOMAIN groups |->
                IF groups[g].problem_id = rp.problem
                THEN [groups[g] EXCEPT ![rp.part_type] = k]
                ELSE groups[g]]
        ELSE Append(groups, [new_group(rp.problem) EXCEPT ![rp.part_type] = k])

\* the loop of list over the rows read: list(problems_dict.values())
RECURSIVE group_by_problem(_)
group_by_problem(rows) ==
    IF rows = <<>>
    THEN <<>>
    ELSE group_add(group_by_problem(SubSeq(rows, 1, Len(rows) - 1)),
                   rows[Len(rows)])

NoListing == [query |-> [phone_model |-> None, brand |-> None],
              rows |-> <<>>, groups |-> <<>>]

\* RepairPriceViewSet.list: reads only; 404 when nothing matches
list(query) ==
    /\ \/ /\ filtered(query) = {}
          /\ calc' = [NoListing EXCEPT !.query = query]
          /\ last' = Response("list", 404, "not_found", None)
       \/ /\ filtered(query) # {}
          /\ \E rows \in ordered(filtered(query)) :
                calc' = [query |-> query, rows |-> rows,
                         groups |-> group_by_problem(rows)]
          /\ last' = Response("list", 200, "", None)
    /\ UNCHANGED <<phone_models, repair_prices, website_discount, orders,
                   next_id, steps, txs>>

\* a catalog of three phone models, the two of brand 1 created on the same
\* day or on different days, each option active or not
InitList ==
    /\ \E c \in [{1, 2} -> Days] :
        phone_models =
            [m \in ListPhoneModels |->
                [is_active |-> TRUE, brand |-> ListBrand(m),
                 created_at |-> IF m = 3 THEN 1 ELSE c[m]]]
    /\ \E act \in [DOMAIN ListRepairPrices -> BOOLEAN] :
        repair_prices =
            [k \in DOMAIN ListRepairPrices |->
                [ListRepairPrices[k] EXCEPT !.is_active = act[k]]]
    /\ website_discount = [is_active |-> TRUE, percentage |-> 5, amount |-> 0]
    /\ orders = <<>>
    /\ next_id = 1
    /\ steps = 0
    /\ last = Response("none", 0, "", None)
    /\ txs = [c \in Connections |-> IdleTx]
    /\ calc = NoListing

\* listings, and options activated and deactivated meanwhile
NextList ==
    \/ \E query \in Queries : list(query)
    \/ \E k \in DOMAIN repair_prices, value \in BOOLEAN :
            edit_repair_price(k, "is_active", value)

SpecList == InitList /\ [][NextList]_vars

(* ------------------------ reading an order back ------------------------ *)

\* a line item serialized from the RepairPrice of its selection, when the
\* catalog still has one, instead of from its own columns
order_item_data_live(order, item) ==
    LET sel == [problem_id |-> item.problem, part_type |-> item.part_type]
        live == ActiveRepairPrices(order.phone_model, sel) # {}
        rp == RepairPriceOf(order.phone_model, sel)
    IN  [base_price |-> IF live THEN rp.base_price ELSE item.base_price,
         discount_percentage |->
            IF live THEN rp.discount_percentage ELSE item.discount_percentage,
         discount_amount |->
            IF live THEN rp.discount_amount ELSE item.discount_amount,
         final_price |->
            IF live THEN Quantize(final_price(rp)) ELSE item.final_price,
         warranty_days |->
            IF live THEN rp.warranty_days ELSE item.warranty_days]

\* OrderItemSerializer: the figures of a line item as a fetch of the order
\* returns them, read from the OrderItem row
order_item_data(order, item) ==
    [base_price |-> item.base_price,
     discount_percentage |-> item.discount_percentage,
     discount_amount |-> item.discount_amount,
     final_price |-> item.final_price,
     warranty_days |-> item.warranty_days]

\* OrderSerializer: the figures of an order as a fetch returns them
order_data(order) ==
    [subtotal |-> order.subtotal,
     item_discount |-> order.item_discount,
     website_discount_percentage |-> order.website_discount_percentage,
     website_discount_amount |-> order.website_discount_amount,
     total_amount |-> order.total_amount,
     order_items |->
        [i \in DOMAIN order.order_items |->
            order_item_data(order, order.order_items[i])]]

(* ------------------------------ claims --------------------------------- *)

Terminal == {"completed", "cancelled", "refunded"}

\* the total the order's stored line items and stored site discount give:
\* max(0, subtotal - item_discount - site_discount), as an amount in cents
ExpectedTotal(order) ==
    LET items == order.order_items
        subtotal == Sum([i \in DOMAIN items |-> items[i].base_price])
        discount ==
            Sum([i \in DOMAIN items |->
                    items[i].base_price - items[i].final_price])
        site_discount ==
            (subtotal - discount) * order.website_discount_percentage
                + Micro(order.website_discount_amount)
    IN  Quantize(Max(0, Micro(subtotal - discount) - site_discount))

\* C1: every persisted order has total_amount = max(0, subtotal -
\* item_discount - site_discount), with subtotal the sum of its line items'
\* base prices, item_discount the sum of their base_price - final_price, and
\* site_discount = (subtotal - item_discount) * website_discount_percentage
\* / 100 + website_discount_amount (the total being an amount in cents).
C1_TotalInvariant ==
    \A id \in DOMAIN orders :
        LET o == orders[id]
        IN  /\ o.subtotal =
                Sum([i \in DOMAIN o.order_items |->
                        o.order_items[i].base_price])
            /\ o.item_discount =
                Sum([i \in DOMAIN o.order_items |->
                        o.order_items[i].base_price
                            - o.order_items[i].final_price])
            /\ o.total_amount = ExpectedTotal(o)

\* C2: a confirm succeeds, and changes the order, only when the order's
\* status before the call is pending; a cancel of an order whose status before
\* the call is completed, cancelled or refunded fails and changes nothing.
C2_LifecycleExclusivity ==
    [][/\ (last'.op = "confirm" /\ (last'.code = 200 \/ orders' # orders))
            => orders[last'.oid].status = "pending"
       /\ (last'.op = "cancel" /\ orders[last'.oid].status \in Terminal)
            => (last'.code = 400 /\ orders' = orders)]_vars

\* an order that was confirmed, then cancelled, and whose second cancel has
\* just been refused
C2_Witness ==
    /\ last.op = "cancel"
    /\ last.code = 400
    /\ orders[last.oid].status = "cancelled"
    /\ orders[last.oid].confirmed_at # None

\* C3: a confirm of an order that is not pending answers with an error and
\* leaves the order and its line items as they were (status, confirmed_at
\* and every warranty_expires_at).
C3_ConfirmRejected ==
    [][(last'.op = "confirm" /\ orders[last'.oid].status # "pending")
            => (last'.code = 400 /\ orders' = orders)]_vars

\* a cancelled, never confirmed order whose confirm has just been refused
C3_Witness ==
    /\ last.op = "confirm"
    /\ last.code = 400
    /\ orders[last.oid].status = "cancelled"
    /\ orders[last.oid].confirmed_at = None
    /\ \A i \in DOMAIN orders[last.oid].order_items :
            orders[last.oid].order_items[i].warranty_expires_at = None

\* the figures C4 is about, as a fetch of the order returns them
SnapshotFigures(order) ==
    LET d == order_data(order)
    IN  [subtotal |-> d.subtotal, item_discount |-> d.item_discount,
         total_amount |-> d.total_amount, order_items |-> d.order_items]

\* C4: a change of a RepairPrice, a confirm and a cancel each leave, for
\* every existing order, the fetched base_price, discount_percentage,
\* discount_amount, final_price and warranty_days of every line item and the
\* fetched subtotal, item_discount and total_amount as they were.
C4_OrderImmutable ==
    [][last'.op \in {"edit_repair_price", "confirm", "cancel"}
            => \A id \in DOMAIN orders :
                    SnapshotFigures(orders[id])' = SnapshotFigures(orders[id])]_vars

\* a confirmed order one of whose line items no longer has the base price,
\* discounts, warranty, or availability of its RepairPrice
C4_Witness ==
    /\ last.op = "confirm"
    /\ last.code = 200
    /\ \E i \in DOMAIN orders[last.oid].order_items :
        LET item == orders[last.oid].order_items[i]
            sel == [problem_id |-> item.problem, part_type |-> item.part_type]
            pm == orders[last.oid].phone_model
        IN  \/ ActiveRepairPrices(pm, sel) = {}
            \/ ~RepairPriceOf(pm, sel).in_stock
            \/ RepairPriceOf(pm, sel).base_price # item.base_price
            \/ RepairPriceOf(pm, sel).discount_percentage
                    # item.discount_percentage
            \/ RepairPriceOf(pm, sel).discount_amount # item.discount_amount
            \/ RepairPriceOf(pm, sel).warranty_days # item.warranty_days

\* the monetary figures of an order and of its line items
MonetaryFigures(order) ==
    [subtotal |-> order.subtotal,
     item_discount |-> order.item_discount,
     website_discount_percentage |-> order.website_discount_percentage,
     website_discount_amount |-> order.website_discount_amount,
     total_amount |-> order.total_amount,
     order_items |->
        [i \in DOMAIN order.order_items |->
            [base_price |-> order.order_items[i].base_price,
             discount_percentage |-> order.order_items[i].discount_percentage,
             discount_amount |-> order.order_items[i].discount_amount,
             final_price |-> order.order_items[i].final_price]]]

\* C5: a confirm or a cancel leaves every monetary figure of every order as
\* it was: the totals are not recalculated, also when the stored total is no
\* longer the one the stored site discount gives.
C5_NoMonetaryChange ==
    [][last'.op \in {"confirm", "cancel"}
            => \A id \in DOMAIN orders :
                    MonetaryFigures(orders'[id]) = MonetaryFigures(orders[id])]_vars

\* an order just confirmed whose stored total is not the one a recalculation
\* would store
C5_Witness ==
    /\ last.op = "confirm"
    /\ last.code = 200
    /\ orders[last.oid].total_amount
            # Quantize(calculate_totals(orders[last.oid]).total_amount)

\* the site discount percentage C8 expects createOrder to use
ExpectedPercentage(data) ==
    IF data.website_discount_percentage # None
    THEN data.website_discount_percentage
    ELSE active_discount_percentage

\* the site discount amount C8 expects createOrder to use
ExpectedAmount(data) ==
    IF data.website_discount_amount # None
    THEN data.website_discount_amount
    ELSE active_discount_amount

\* C8: an order created by createOrder stores, and is totalled with, the
\* site discount of the request when the request carries one, and otherwise
\* that of the active WebsiteDiscount (zero when none is active).
C8_SiteDiscountSource ==
    [][\A data \in Requests :
        (create(data) /\ last'.code = 201)
            => LET o == orders'[last'.oid]
               IN  /\ o.website_discount_percentage = ExpectedPercentage(data)
                   /\ o.website_discount_amount = ExpectedAmount(data)
                   /\ o.total_amount = ExpectedTotal(o)]_vars

\* C9: a price preview and createOrder give, for the same request against
\* the same catalog and WebsiteDiscount, the same subtotal, item_discount,
\* site discount percentage and amount, and total_amount.
C9_PreviewMatchesCreate ==
    (last.op = "calculate_price" /\ last.code = 200)
        => \A data \in Requests :
            (calculate_price_error(data) = "ok" /\ is_valid(data) = "ok")
                => LET p == calculate_price_body(data)
                       o == created_order(data, 1)
                   IN  /\ p.subtotal = Fine(Micro(o.subtotal))
                       /\ p.item_discount = Fine(Micro(o.item_discount))
                       /\ p.website_discount_percentage
                            = o.website_discount_percentage
                       /\ p.website_discount_amount
                            = Fine(Micro(o.website_discount_amount))
                       /\ p.total_amount = Fine(Micro(o.total_amount))

\* the order a create request on connection c is to persist: the row of its
\* request, one line item per selection, the totals computed
CompleteOrder(tx, order) ==
    /\ Len(order.order_items) = Len(tx.data.items)
    /\ Len(order.order_items) > 0
    /\ \A i \in DOMAIN order.order_items :
        /\ order.order_items[i].problem = tx.data.items[i].problem_id
        /\ order.order_items[i].part_type = tx.data.items[i].part_type
    /\ order.subtotal =
        Sum([i \in DOMAIN order.order_items |->
                order.order_items[i].base_price])
    /\ order.item_discount =
        Sum([i \in DOMAIN order.order_items |->
                order.order_items[i].base_price
                    - order.order_items[i].final_price])
    /\ order.total_amount = ExpectedTotal(order)

\* C6: when a create request ends, either its order is persisted with every
\* line item of the request and its computed totals, or, when the request is
\* rejected (no items, inactive model, unknown or out-of-stock option) or
\* fails while its rows are being written, the persisted orders are those
\* there were before.
C6_AllOrNothing ==
    [][/\ \A c \in Connections :
            (txs[c].pc # "idle" /\ txs'[c].pc = "idle")
                => IF last'.code = 201
                   THEN /\ txs[c].oid \notin DOMAIN orders
                        /\ DOMAIN orders' = DOMAIN orders \cup {txs[c].oid}
                        /\ \A id \in DOMAIN orders : orders'[id] = orders[id]
                        /\ CompleteOrder(txs[c], orders'[txs[c].oid])
                   ELSE orders' = orders
       /\ (last'.op = "create" /\ last'.code = 400) => orders' = orders]_vars

\* a create request that failed after its order row was written, and no
\* order persisted
C6_Witness ==
    /\ last.op = "create"
    /\ last.code = 500
    /\ last.error = "DoesNotExist"
    /\ next_id > 1
    /\ orders = <<>>

\* C7: no two persisted orders share an order_number, and no create request
\* fails on a collision of order numbers: the request that meets one retries
\* with a fresh number.
C7_UniqueNumberRetried ==
    /\ \A i, j \in DOMAIN orders :
            i # j => orders[i].order_number # orders[j].order_number
    /\ ~(last.op = "create" /\ last.error = "IntegrityError")

\* C10: the final_price read from a RepairPrice with base_price >= 0,
\* discount_percentage in 0..100 and discount_amount >= 0 is max(0,
\* base_price - base_price * discount_percentage / 100 - discount_amount),
\* its total_discount is base_price - final_price, and 0 <= final_price <=
\* base_price; base 100, 10%, 5 fixed gives 85 and 15, base 20, 100%, 50
\* fixed gives 0.
C10_FinalPriceFloor ==
    calc.final_price # None =>
        LET exact == calc.base_price * Scale
                        - calc.base_price * calc.discount_percentage
                        - calc.discount_amount * Scale
        IN  /\ calc.final_price = (IF exact < 0 THEN 0 ELSE exact)
            /\ calc.total_discount = calc.base_price * Scale - calc.final_price
            /\ 0 <= calc.final_price
            /\ calc.final_price <= calc.base_price * Scale
            /\ (calc.base_price = 10000 /\ calc.discount_percentage = 10
                    /\ calc.discount_amount = 500)
                => (calc.final_price = 8500 * Scale
                        /\ calc.total_discount = 1500 * Scale)
            /\ (calc.base_price = 2000 /\ calc.discount_percentage = 100
                    /\ calc.discount_amount = 5000)
                => calc.final_price = 0

\* the prices of a RepairPrice whose discounts exceed its base price
C10_Witness ==
    /\ calc.base_price = 2000
    /\ calc.discount_percentage = 100
    /\ calc.discount_amount = 5000
    /\ calc.final_price = 0
    /\ calc.total_discount = 2000 * Scale

\* the catalog and the WebsiteDiscount are those the figures in calc were
\* computed from, but for discounts that are now higher
DiscountsRaised ==
    /\ calc # NoCalc
    /\ repair_prices # calc.repair_prices
            \/ website_discount # calc.website_discount
    /\ \A k \in DOMAIN repair_prices :
        /\ repair_prices[k].discount_percentage
                >= calc.repair_prices[k].discount_percentage
        /\ repair_prices[k].discount_amount
                >= calc.repair_prices[k].discount_amount
        /\ [repair_prices[k] EXCEPT
                !.discount_percentage = 0, !.discount_amount = 0]
            = [calc.repair_prices[k] EXCEPT
                !.discount_percentage = 0, !.discount_amount = 0]
    /\ website_discount.is_active = calc.website_discount.is_active
    /\ website_discount.percentage >= calc.website_discount.percentage
    /\ website_discount.amount >= calc.website_discount.amount

\* C11: with everything else fixed, raising a RepairPrice's
\* discount_percentage (within 0..100) or discount_amount does not raise its
\* final_price, nor the total_amount of the preview or of the order created
\* for a request; raising the site-wide percentage (within 0..100) or fixed
\* amount does not raise the total_amount of a preview, nor the total_amount
\* calculate_totals gives an order that carries it.
C11_DiscountMonotone ==
    DiscountsRaised =>
        /\ \A k \in DOMAIN repair_prices :
                final_price(repair_prices[k])
                    <= final_price(calc.repair_prices[k])
        /\ calculate_price_body(calc.data).total_amount <= calc.preview_total
        /\ created_order(calc.data, 1).total_amount <= calc.order_total
        /\ save_totals([created_order(calc.data, 1) EXCEPT
                !.website_discount_percentage = website_discount.percentage,
                !.website_discount_amount = website_discount.amount
            ]).total_amount <= calc.site_total

\* figures computed before the fixed discount of a RepairPrice was raised
\* beyond its base price, the final price now at the floor
C11_Witness ==
    /\ DiscountsRaised
    /\ last.op = "edit_repair_price"
    /\ repair_prices[1].discount_amount = 5000
    /\ calc.repair_prices[1].discount_amount = 3
    /\ repair_prices[1].base_price = 2000
    /\ final_price(repair_prices[1]) = 0
    /\ calc.preview_total > 0

\* line item i of `order` is the snapshot of the active RepairPrice of entry
\* i of the request, but for its final_price
SnapshotOf(order, data, i) ==
    LET item == order.order_items[i]
        rp == RepairPriceOf(data.phone_model_id, data.items[i])
    IN  /\ item.problem = data.items[i].problem_id
        /\ item.part_type = data.items[i].part_type
        /\ item.base_price = rp.base_price
        /\ item.discount_percentage = rp.discount_percentage
        /\ item.discount_amount = rp.discount_amount
        /\ item.warranty_days = rp.warranty_days

\* one line item per entry of the request, in request order, and every entry
\* counted in subtotal and item_discount
OnePerEntry(order, data) ==
    /\ Len(order.order_items) = Len(data.items)
    /\ \A i \in DOMAIN data.items : SnapshotOf(order, data, i)
    /\ order.subtotal =
        Sum([i \in DOMAIN data.items |->
                RepairPriceOf(data.phone_model_id, data.items[i]).base_price])
    /\ order.item_discount =
        Sum([i \in DOMAIN data.items |->
                order.order_items[i].base_price
                    - order.order_items[i].final_price])

\* C12 as stated: a successful createOrder persists one line item per entry
\* of the request's items list, in request order, each with the base_price,
\* discount_percentage, discount_amount, final_price and warranty_days of
\* the active RepairPrice of the entry; a pair listed twice gives two line
\* items and is counted twice in subtotal and item_discount.
C12_LineItemsVerbatim ==
    [][\A data \in Requests :
        (create(data) /\ last'.code = 201)
            => LET o == orders'[last'.oid]
               IN  /\ OnePerEntry(o, data)
                   /\ \A i \in DOMAIN data.items :
                        Micro(o.order_items[i].final_price) =
                            final_price(RepairPriceOf(data.phone_model_id,
                                                      data.items[i]))]_vars

\* C12 amended: as above, the final_price of a line item being the
\* final_price of the RepairPrice rounded to cents.
C12_LineItemsRounded ==
    [][\A data \in Requests :
        (create(data) /\ last'.code = 201)
            => LET o == orders'[last'.oid]
               IN  /\ OnePerEntry(o, data)
                   /\ \A i \in DOMAIN data.items :
                        o.order_items[i].final_price =
                            Quantize(final_price(
                                RepairPriceOf(data.phone_model_id,
                                              data.items[i])))]_vars

\* an order just created for a request that lists one pair twice: two line
\* items of that pair, both counted in the subtotal
C12_Witness ==
    /\ last.op = "create"
    /\ last.code = 201
    /\ Len(orders[last.oid].order_items) = 2
    /\ orders[last.oid].order_items[1].problem
            = orders[last.oid].order_items[2].problem
    /\ orders[last.oid].order_items[1].part_type
            = orders[last.oid].order_items[2].part_type
    /\ orders[last.oid].subtotal
            = 2 * orders[last.oid].order_items[1].base_price
    /\ orders[last.oid].subtotal > 0

\* C13: a successful confirm of a pending order at time `now` stores status
\* confirmed and confirmed_at = now, and for every line item of the order
\* warranty_expires_at = the day of confirmed_at plus the line item's
\* warranty_days.
C13_ConfirmSetsWarranty ==
    [][\A id \in DOMAIN orders, now \in Days :
        (confirm(id, now) /\ last'.code = 200)
            => /\ orders[id].status = "pending"
               /\ orders'[id].status = "confirmed"
               /\ orders'[id].confirmed_at = now
               /\ DOMAIN orders'[id].order_items = DOMAIN orders[id].order_items
               /\ \A i \in DOMAIN orders[id].order_items :
                    orders'[id].order_items[i].warranty_expires_at
                        = now + orders[id].order_items[i].warranty_days]_vars

\* an order confirmed on the second day whose two line items have different
\* warranties, each expiring its own number of days later
C13_Witness ==
    /\ last.op = "confirm"
    /\ last.code = 200
    /\ orders[last.oid].confirmed_at = 2
    /\ Len(orders[last.oid].order_items) = 2
    /\ orders[last.oid].order_items[1].warranty_days
            # orders[last.oid].order_items[2].warranty_days
    /\ \A i \in DOMAIN orders[last.oid].order_items :
            orders[last.oid].order_items[i].warranty_expires_at
                = 2 + orders[last.oid].order_items[i].warranty_days

\* C14: in every persisted state, a line item has a warranty_expires_at only
\* if its order has a confirmed_at.
C14_WarrantyOnlyIfConfirmed ==
    \A id \in DOMAIN orders :
        \A i \in DOMAIN orders[id].order_items :
            orders[id].order_items[i].warranty_expires_at # None
                => orders[id].confirmed_at # None

\* C20: a confirm that fails after it has started writing leaves the order
\* pending, with no confirmed_at and no line item with a warranty_expires_at;
\* and no connection being at work on an order, no confirmed order has a
\* warranty expiry on only some of its line items.
C20_ConfirmAllOrNothing ==
    /\ (last.op = "confirm" /\ last.code = 500)
        => /\ orders[last.oid].status = "pending"
           /\ orders[last.oid].confirmed_at = None
           /\ \A i \in DOMAIN orders[last.oid].order_items :
                orders[last.oid].order_items[i].warranty_expires_at = None
    /\ (\A c \in Connections : txs[c] = IdleTx)
        => \A id \in DOMAIN orders :
            orders[id].status = "confirmed"
                => \/ \A i \in DOMAIN orders[id].order_items :
                        orders[id].order_items[i].warranty_expires_at # None
                   \/ \A i \in DOMAIN orders[id].order_items :
                        orders[id].order_items[i].warranty_expires_at = None

\* C15: a successful cancel stores status cancelled and leaves the order's
\* payment_status as it was before the call, whichever of the payment
\* statuses that was.
C15_CancelKeepsPayment ==
    [][\A id \in DOMAIN orders :
        (cancel(id) /\ last'.code = 200)
            => /\ orders'[id].status = "cancelled"
               /\ orders'[id].payment_status = orders[id].payment_status]_vars

\* a cancelled order that had been paid and still is
C15_Witness ==
    /\ last.op = "cancel"
    /\ last.code = 200
    /\ orders[last.oid].status = "cancelled"
    /\ orders[last.oid].payment_status = "paid"

\* the edges of the order lifecycle: pending -> confirmed -> in_progress ->
\* completed, pending|confirmed -> cancelled, and a paid order -> refunded
LifecycleEdge(order, status) ==
    \/ order.status = "pending" /\ status = "confirmed"
    \/ order.status = "confirmed" /\ status = "in_progress"
    \/ order.status = "in_progress" /\ status = "completed"
    \/ order.status \in {"pending", "confirmed"} /\ status = "cancelled"
    \/ order.payment_status = "paid" /\ status = "refunded"

\* C16: an order is created pending with payment_status pending, every later
\* change of its persisted status follows an edge of the lifecycle graph, and
\* no step changes the status of a completed, cancelled or refunded order.
C16_LifecycleGraph ==
    [][/\ \A id \in DOMAIN orders' \ DOMAIN orders :
            /\ orders'[id].status = "pending"
            /\ orders'[id].payment_status = "pending"
       /\ \A id \in DOMAIN orders :
            orders'[id].status # orders[id].status
                => /\ orders[id].status \notin Terminal
                   /\ LifecycleEdge(orders[id], orders'[id].status)]_vars

\* C19: whenever a running create request stores a line item, the RepairPrice
\* it reads for the snapshot is at that moment active and in stock; a request
\* whose option went out of stock after validation stores no line item for it.
C19_SnapshotAvailable ==
    [][\A c \in Connections :
        (create_item(c) /\ txs'[c].pc = "items")
            => LET item == txs[c].data.items[Len(txs'[c].order.order_items)]
                   rp == RepairPriceOf(txs[c].data.phone_model_id, item)
               IN  rp.is_active /\ rp.in_stock]_vars

\* the options among the rows read that have the problem and the part type
Matched(rows, problem, part) ==
    {rows[i] : i \in {j \in DOMAIN rows :
        /\ repair_prices[rows[j]].problem = problem
        /\ repair_prices[rows[j]].part_type = part}}

\* where a problem first appears among the rows read
FirstAppearance(rows, problem) ==
    CHOOSE i \in DOMAIN rows :
        /\ repair_prices[rows[i]].problem = problem
        /\ \A j \in 1..(i - 1) : repair_prices[rows[j]].problem # problem

\* C17: a successful listing read the matched active repair prices and
\* returns one group per distinct problem among them, in the order each
\* problem first appears; in each group the original and the duplicate entry
\* is an option read of that part type for that problem, and is null when
\* there is none.
C17_GroupedListing ==
    (last.op = "list" /\ last.code = 200) =>
        LET rows == calc.rows
            groups == calc.groups
        IN  /\ {rows[i] : i \in DOMAIN rows} = filtered(calc.query)
            /\ {groups[g].problem_id : g \in DOMAIN groups}
                    = {repair_prices[rows[i]].problem : i \in DOMAIN rows}
            /\ \A g, h \in DOMAIN groups :
                    g < h => FirstAppearance(rows, groups[g].problem_id)
                                < FirstAppearance(rows, groups[h].problem_id)
            /\ \A g \in DOMAIN groups : \A part \in {"original", "duplicate"} :
                    IF Matched(rows, groups[g].problem_id, part) = {}
                    THEN groups[g][part] = None
                    ELSE groups[g][part]
                            \in Matched(rows, groups[g].problem_id, part)

\* a listing of two groups, the problem that sorts second met first, with an
\* original but no duplicate option in the second group
C17_Witness ==
    /\ last.op = "list"
    /\ last.code = 200
    /\ Len(calc.groups) = 2
    /\ calc.groups[1].problem_id = 2
    /\ calc.groups[2].original # None
    /\ calc.groups[2].duplicate = None

\* C18: every order in which the rows of a listing can be read gives the
\* groups, with the original and duplicate entries, that the listing
\* returned, the order of the groups apart; also when the listing is by brand
\* and several phone models have an option for one problem and part type.
C18_GroupingOrderIndependent ==
    (last.op = "list" /\ last.code = 200) =>
        \A rows \in ordered(filtered(calc.query)) :
            {group_by_problem(rows)[g] : g \in DOMAIN group_by_problem(rows)}
                = {calc.groups[g] : g \in DOMAIN calc.groups}

\* C21: a confirm and a cancel running concurrently on one pending order end
\* as one of their two serial orders does. While a successful cancel is the
\* latest response, the persisted status of its order is not confirmed; and
\* when no request is at work, a cancelled order has either its confirmed_at
\* and the warranty dates of all its line items (confirm, then cancel) or no
\* confirmed_at and no warranty date (cancel, then confirm rejected).
C21_ConfirmCancelSerializable ==
    /\ (last.op = "cancel" /\ last.code = 200)
            => orders[last.oid].status # "confirmed"
    /\ (\A c \in Connections : txs[c] = IdleTx)
            => \A id \in DOMAIN orders :
                orders[id].status = "cancelled"
                    => \/ /\ orders[id].confirmed_at # None
                          /\ \A i \in DOMAIN orders[id].order_items :
                                orders[id].order_items[i].warranty_expires_at
                                    # None
                       \/ /\ orders[id].confirmed_at = None
                          /\ \A i \in DOMAIN orders[id].order_items :
                                orders[id].order_items[i].warranty_expires_at
                                    = None

\* the fields of an order that OrderSerializer only reads, with its line
\* items
ReadOnlyFigures(order) ==
    [order_number |-> order.order_number, subtotal |-> order.subtotal,
     item_discount |-> order.item_discount,
     total_amount |-> order.total_amount,
     confirmed_at |-> order.confirmed_at,
     completed_at |-> order.completed_at,
     order_items |-> order.order_items]

\* C22: a PUT or PATCH of an order leaves the order_number, subtotal,
\* item_discount, total_amount, confirmed_at and completed_at of every order
\* and every line item as they were, and no step changes the order_number of
\* an existing order.
C22_UpdateKeepsReadOnly ==
    [][/\ last'.op = "update"
            => \A id \in DOMAIN orders :
                    ReadOnlyFigures(orders'[id]) = ReadOnlyFigures(orders[id])
       /\ \A id \in DOMAIN orders :
            /\ id \in DOMAIN orders'
            /\ orders'[id].order_number = orders[id].order_number]_vars

\* a confirmed order just given a site discount of 50% by an update: it
\* keeps its confirmed_at and the total stored at creation, which is no
\* longer the total its fields give
C22_Witness ==
    /\ last.op = "update"
    /\ last.code = 200
    /\ orders[last.oid].confirmed_at # None
    /\ orders[last.oid].website_discount_percentage = 50
    /\ orders[last.oid].order_items # <<>>
    /\ orders[last.oid].total_amount
            # Quantize(calculate_totals(orders[last.oid]).total_amount)

====
